---- MODULE Spec2Model ----
(***************************************************************************)
(* Model of the result-export layer src/src/output.rs: the tabular writer  *)
(* write_table with its format inference, the artifact writers that feed   *)
(* it, the field-of-view vote cell_fov_vote, and the two streaming GeoJSON *)
(* writers.                                                                *)
(*                                                                         *)
(* File names are sequences of one-character strings, so that ends_with is *)
(* a real suffix test.  Bytes written to a sink are sequences of tokens    *)
(* [k, s, n]: k = "p" punctuation s, k = "str" the text s, k = "num" the   *)
(* number n.                                                               *)
(***************************************************************************)
EXTENDS Integers, Sequences, FiniteSets, TLC

VARIABLES
    entry,        \* the function the driver called
    output_path,  \* the Option<String> argument of an artifact writer
    filename,     \* write_table: filename
    fmt,          \* write_table: the requested fmt
    rfmt,         \* write_table: the shadowing fmt of line 33 ("unset" before)
    schema,       \* write_table: schema (field names)
    chunk,        \* write_table: chunk (columns)
    sink,         \* tokens handed so far to the writer `output` / `encoder`
    files,        \* the file system: name -> file
    pc,           \* position in the running function
    panic,        \* "none", or the kind of the panic that aborted the call
    ncalls,       \* calls the driver has made
    polygons,     \* GeoJSON writers: polygons
    geo,          \* GeoJSON writers: the loop variables
    vote,         \* cell_fov_vote: arguments and locals
    args          \* the remaining arguments of the running artifact writer

vars == <<entry, output_path, filename, fmt, rfmt, schema, chunk, sink, files,
          pc, panic, ncalls, polygons, geo, vote, args>>

----------------------------------------------------------------------------
(* Bounds of the model. *)

MaxCalls == 2
MaxCols == 2
MaxRows == 2

----------------------------------------------------------------------------
(* Sequences and tokens. *)

Tok(k, s, n) == [k |-> k, s |-> s, n |-> n]
P(s) == Tok("p", s, 0)
Str(s) == Tok("str", s, 0)
Num(n) == Tok("num", "", n)

Comma == P(",")
Newline == P("\n")

\* the concatenation of ss[lo..hi], by halves
RECURSIVE FlattenRange(_, _, _)
FlattenRange(ss, lo, hi) ==
    IF lo > hi THEN <<>>
    ELSE IF lo = hi THEN ss[lo]
    ELSE LET mid == (lo + hi) \div 2 IN
         FlattenRange(ss, lo, mid) \o FlattenRange(ss, mid + 1, hi)

Flatten(ss) == FlattenRange(ss, 1, Len(ss))

\* the elements of s joined by sep
RECURSIVE Join(_, _)
Join(s, sep) ==
    IF s = <<>> THEN <<>>
    ELSE IF Len(s) = 1 THEN <<s[1]>>
    ELSE <<s[1], sep>> \o Join(Tail(s), sep)

SeqsUpTo(S, n) == UNION {[1..m -> S] : m \in 0..n}

Min(a, b) == IF a < b THEN a ELSE b

----------------------------------------------------------------------------
(* OutputFormat and format inference. *)

OutputFormat == {"Infer", "Csv", "CsvGz", "Parquet"}

DotCsv == <<".", "c", "s", "v">>
DotGz == <<".", "g", "z">>
DotCsvGz == DotCsv \o DotGz
DotParquet == <<".", "p", "a", "r", "q", "u", "e", "t">>
DotTxt == <<".", "t", "x", "t">>

\* str::ends_with
ends_with(s, suffix) ==
    /\ Len(s) >= Len(suffix)
    /\ SubSeq(s, Len(s) - Len(suffix) + 1, Len(s)) = suffix

\* a variant that also takes a bare ".gz" for compressed text
infer_format_gz_alias(name) ==
    IF ends_with(name, DotGz) THEN "CsvGz"
    ELSE IF ends_with(name, DotCsv) THEN "Csv"
    ELSE IF ends_with(name, DotParquet) THEN "Parquet"
    ELSE "panic"

\* a variant that falls back to Csv instead of panicking
infer_format_default_csv(name) ==
    IF ends_with(name, DotCsvGz) THEN "CsvGz"
    ELSE IF ends_with(name, DotCsv) THEN "Csv"
    ELSE IF ends_with(name, DotParquet) THEN "Parquet"
    ELSE "Csv"

\* "panic" is the panic!("Unknown file format for filename: {}") of line 137
infer_format_from_filename(name) ==
    IF ends_with(name, DotCsvGz) THEN "CsvGz"
    ELSE IF ends_with(name, DotCsv) THEN "Csv"
    ELSE IF ends_with(name, DotParquet) THEN "Parquet"
    ELSE "panic"

\* a variant in which a recognised suffix overrides the requested format
resolve_suffix_first(requested, name) ==
    IF requested = "Infer" \/ infer_format_from_filename(name) # "panic"
    THEN infer_format_from_filename(name)
    ELSE requested

\* a variant without the match: the requested format goes on as it is
resolve_keep_requested(requested, name) == requested

\* the match of lines 33-36
resolve(requested, name) ==
    IF requested = "Infer" THEN infer_format_from_filename(name) ELSE requested

----------------------------------------------------------------------------
(* The inputs of write_table. *)

Stem == <<"a">>
FileNames ==
    {Stem \o e : e \in {<<>>, DotCsv, DotCsvGz, DotParquet, DotTxt, DotGz}}
        \cup {Stem \o DotCsv \o DotTxt, Stem \o DotParquet \o DotCsv}

GeneNames == <<"g1", "g2", "g3", "g4">>

\* a schema of c fields and a chunk of c columns of r rows each
TableOf(c, r) ==
    [schema |-> [k \in 1..c |-> GeneNames[k]],
     chunk |-> [k \in 1..c |-> [row \in 1..r |-> 10 * k + row]]]

Tables == {TableOf(c, r) : c \in 0..MaxCols, r \in 0..MaxRows}

----------------------------------------------------------------------------
(* Encoders.  A chunk is a sequence of columns, each a sequence of tokens. *)

\* Chunk::len: the length of the first column, 0 without columns
ChunkLen(c) == IF c = <<>> THEN 0 ELSE Len(c[1])

\* arrow2::io::csv::write::write_header: the names, comma separated, one line
write_header(names) ==
    Join([k \in 1..Len(names) |-> Str(names[k])], Comma) \o <<Newline>>

\* arrow2::io::csv::write::write_chunk: one line per row, in row order
write_chunk(c) ==
    Flatten([row \in 1..ChunkLen(c) |->
                Join([k \in 1..Len(c) |-> c[k][row]], Comma) \o <<Newline>>])

\* the deflate stream of a token sequence, as its run lengths (by halves)
RECURSIVE DeflateRange(_, _, _)
DeflateRange(s, lo, hi) ==
    IF lo > hi THEN <<>>
    ELSE IF lo = hi THEN <<[tok |-> s[lo], run |-> 1]>>
    ELSE LET mid == (lo + hi) \div 2
             a == DeflateRange(s, lo, mid)
             b == DeflateRange(s, mid + 1, hi)
         IN IF a[Len(a)].tok = b[1].tok
            THEN SubSeq(a, 1, Len(a) - 1)
                     \o <<[tok |-> b[1].tok, run |-> a[Len(a)].run + b[1].run]>>
                     \o Tail(b)
            ELSE a \o b

Deflate(s) == DeflateRange(s, 1, Len(s))

Inflate(z) == Flatten([k \in 1..Len(z) |-> [m \in 1..z[k].run |-> z[k].tok]])

\* a file: its encoding, its bytes, and whether its trailer (the gzip trailer,
\* the Parquet footer) was written; plain text has no trailer
PlainFile(s) == [enc |-> "plain", data |-> s, closed |-> TRUE]
GzFile(s, finished) ==
    [enc |-> "gzip", data |-> IF finished THEN Deflate(s) ELSE <<>>,
     closed |-> finished]
ParquetFile(s, finished) == [enc |-> "parquet", data |-> s, closed |-> finished]

\* one row group: the options of lines 90-108 and the columns
RowGroup(names, c) ==
    [names |-> names, columns |-> c, statistics |-> TRUE, version |-> "V2",
     compression |-> "Zstd", encoding |-> "Plain"]

\* File::create and a write through the handle: the file at name becomes f
Put(fs, name, f) ==
    [n \in DOMAIN fs \cup {name} |-> IF n = name THEN f ELSE fs[n]]

NoFiles == [n \in {} |-> PlainFile(<<>>)]

----------------------------------------------------------------------------
(* write_table, lines 27-61. *)

None == [some |-> FALSE, name |-> <<>>]
Some(name) == [some |-> TRUE, name |-> name]

tableVars == <<schema, chunk>>
geoVars == <<polygons, geo>>
otherVars == <<polygons, geo, vote, args>>

Abort(kind) == pc' = "panicked" /\ panic' = kind

\* what the panic of the given kind prints: the text and the argument of its
\* format string; unwrap prints the error alone, and an io::Error carries no path
PanicMessage(kind, name) ==
    IF kind = "unknown_format"
    THEN [text |-> "Unknown file format for filename: {}", arg |-> name]
    ELSE IF kind = "csv" THEN [text |-> "Error writing csv file: {}", arg |-> name]
    ELSE IF kind = "csvgz" THEN [text |-> "Error writing csv.gz file: {}", arg |-> name]
    ELSE IF kind = "parquet" THEN [text |-> "Error writing parquet file: {}", arg |-> name]
    ELSE IF kind = "infer_arm"
    THEN [text |-> "Cannot infer output format for filename: {}", arg |-> name]
    ELSE IF kind \in {"create", "geo_create", "geo_write"}
    THEN [text |-> "called Result::unwrap on an Err value: io::Error", arg |-> <<>>]
    ELSE IF kind = "chunk"
    THEN [text |-> "called Result::unwrap on an Err value: InvalidArgumentError",
          arg |-> <<>>]
    ELSE IF kind = "index" THEN [text |-> "index out of bounds", arg |-> <<>>]
    ELSE IF kind = "overflow"
    THEN [text |-> "attempt to subtract with overflow", arg |-> <<>>]
    ELSE [text |-> "", arg |-> <<>>]

\* the driver calls write_table(name, f, schema, chunk)
CallWriteTable(name, f) ==
    /\ entry = "write_table"
    /\ pc \in {"idle", "done"}
    /\ ncalls < MaxCalls
    /\ filename' = name
    /\ fmt' = f
    /\ rfmt' = "unset"
    /\ sink' = <<>>
    /\ pc' = "wt_resolve"
    /\ ncalls' = ncalls + 1
    /\ UNCHANGED <<entry, output_path, files, panic, tableVars, otherVars>>

\* lines 33-36
WtResolve ==
    /\ pc = "wt_resolve"
    /\ LET r == resolve(fmt, filename) IN
       IF r = "panic"
       THEN Abort("unknown_format") /\ UNCHANGED rfmt
       ELSE rfmt' = r /\ pc' = "wt_create" /\ UNCHANGED panic
    /\ UNCHANGED <<entry, output_path, filename, fmt, sink, files, ncalls,
                   tableVars, otherVars>>

\* line 38: File::create creates the file or truncates it
WtCreate ==
    /\ pc = "wt_create"
    /\ files' = Put(files, filename, PlainFile(<<>>))
    /\ pc' = "wt_dispatch"
    /\ UNCHANGED <<entry, output_path, filename, fmt, rfmt, sink, panic, ncalls,
                   tableVars, otherVars>>

\* line 38: File::create fails and unwrap panics
WtCreateFail ==
    /\ pc = "wt_create"
    /\ Abort("create")
    /\ UNCHANGED <<entry, output_path, filename, fmt, rfmt, sink, files, ncalls,
                   tableVars, otherVars>>

\* line 40: the match on the resolved fmt; line 47 wraps the file in an encoder
WtDispatch ==
    /\ pc = "wt_dispatch"
    /\ IF rfmt \in {"Csv", "CsvGz"} THEN pc' = "csv_header" /\ UNCHANGED <<panic, files>>
       ELSE IF rfmt = "Parquet" THEN pc' = "pq_groups" /\ UNCHANGED <<panic, files>>
       ELSE Abort("infer_arm") /\ UNCHANGED files
    /\ UNCHANGED <<entry, output_path, filename, fmt, rfmt, sink, ncalls,
                   tableVars, otherVars>>

\* what the file holds once s was written to `output`: a File is written
\* through, a GzEncoder holds the bytes until it is finished
Written(s) ==
    IF rfmt = "Csv" THEN Put(files, filename, PlainFile(s)) ELSE files

\* a variant that writes the header to the raw file, past a GzEncoder
CsvWriteHeaderPastEncoder ==
    /\ pc = "csv_header"
    /\ sink' = IF rfmt = "CsvGz" THEN sink ELSE sink \o write_header(schema)
    /\ files' = Written(sink')
    /\ pc' = "csv_chunk"
    /\ UNCHANGED <<entry, output_path, filename, fmt, rfmt, panic, ncalls,
                   tableVars, otherVars>>

\* line 77
CsvWriteHeader ==
    /\ pc = "csv_header"
    /\ sink' = sink \o write_header(schema)
    /\ files' = Written(sink')
    /\ pc' = "csv_chunk"
    /\ UNCHANGED <<entry, output_path, filename, fmt, rfmt, panic, ncalls,
                   tableVars, otherVars>>

\* line 78
CsvWriteChunk ==
    /\ pc = "csv_chunk"
    /\ sink' = sink \o write_chunk(chunk)
    /\ files' = Written(sink')
    /\ pc' = "wt_finish"
    /\ UNCHANGED <<entry, output_path, filename, fmt, rfmt, panic, ncalls,
                   tableVars, otherVars>>

\* lines 42-44 and 48-50: write_table_csv returned Err
CsvFail ==
    /\ pc \in {"csv_header", "csv_chunk"}
    /\ Abort(IF rfmt = "Csv" THEN "csv" ELSE "csvgz")
    /\ UNCHANGED <<entry, output_path, filename, fmt, rfmt, sink, files, ncalls,
                   tableVars, otherVars>>

\* lines 45, 51: the arm ends; dropping the GzEncoder finishes the stream
WtFinish ==
    /\ pc = "wt_finish"
    /\ files' = IF rfmt = "CsvGz" THEN Put(files, filename, GzFile(sink, TRUE))
                ELSE files
    /\ pc' = "done"
    /\ UNCHANGED <<entry, output_path, filename, fmt, rfmt, sink, panic, ncalls,
                   tableVars, otherVars>>

\* line 51: GzEncoder's drop discards the error of a failed finish
WtFinishLost ==
    /\ pc = "wt_finish"
    /\ rfmt = "CsvGz"
    /\ files' = Put(files, filename, GzFile(sink, FALSE))
    /\ pc' = "done"
    /\ UNCHANGED <<entry, output_path, filename, fmt, rfmt, sink, panic, ncalls,
                   tableVars, otherVars>>

\* lines 110-122: the single row group
PqWriteGroups ==
    /\ pc = "pq_groups"
    /\ sink' = <<RowGroup(schema, chunk)>>
    /\ files' = Put(files, filename, ParquetFile(sink', FALSE))
    /\ pc' = "pq_end"
    /\ UNCHANGED <<entry, output_path, filename, fmt, rfmt, panic, ncalls,
                   tableVars, otherVars>>

\* line 124: writer.end writes the footer
PqEnd ==
    /\ pc = "pq_end"
    /\ files' = Put(files, filename, ParquetFile(sink, TRUE))
    /\ pc' = "done"
    /\ UNCHANGED <<entry, output_path, filename, fmt, rfmt, sink, panic, ncalls,
                   tableVars, otherVars>>

\* lines 53-55: write_table_parquet returned Err
PqFail ==
    /\ pc \in {"pq_groups", "pq_end"}
    /\ Abort("parquet")
    /\ UNCHANGED <<entry, output_path, filename, fmt, rfmt, sink, files, ncalls,
                   tableVars, otherVars>>

WriteTableStep ==
    \/ WtResolve
    \/ WtCreate
    \/ WtCreateFail
    \/ WtDispatch
    \/ CsvWriteHeader
    \/ CsvWriteChunk
    \/ CsvFail
    \/ WtFinish
    \/ WtFinishLost
    \/ PqWriteGroups
    \/ PqEnd
    \/ PqFail

NoGeo == [ncells |-> 0, cell |-> 0, layer |-> 0, npolys |-> 0, i |-> 0, ncoords |-> 0,
          j |-> 0, nmultipolys |-> 0, count |-> 0]
NoVote == [ncells |-> 0, nfovs |-> 0, cell_assignments |-> <<>>, fovs |-> <<>>,
           fov_votes |-> <<>>, cell_fovs |-> <<>>]
NoArgs == <<>>

InitTable ==
    /\ entry = "write_table"
    /\ output_path = None
    /\ filename = <<>>
    /\ fmt = "Infer"
    /\ rfmt = "unset"
    /\ \E t \in Tables :
          /\ schema = t.schema
          /\ chunk = [k \in 1..Len(t.chunk) |->
                         [row \in 1..Len(t.chunk[k]) |-> Num(t.chunk[k][row])]]
    /\ sink = <<>>
    /\ files = NoFiles
    /\ pc = "idle"
    /\ panic = "none"
    /\ ncalls = 0
    /\ polygons = <<>>
    /\ geo = NoGeo
    /\ vote = NoVote
    /\ args = NoArgs

NextTable ==
    \/ \E name \in FileNames, f \in OutputFormat : CallWriteTable(name, f)
    \/ WriteTableStep

SpecTable == InitTable /\ [][NextTable]_vars

----------------------------------------------------------------------------
(* The GeoJSON writers, lines 609-751.  A polygon is its exterior ring, the  *)
(* only part the writers read; a ring is a sequence of coordinates [x, y].   *)
(* The sink receives JSON's lexical tokens; the white space the format       *)
(* strings put between them is left out.                                     *)

MaxCells == 3
MaxPolys == 2
MaxCoords == 2
MaxLayers == 2

Pt(j) == [x |-> j, y |-> j + 10]
\* geo's Polygon::new closes the exterior: a ring ends where it starts
RingOf(n) == [j \in 1..n |-> IF j = n THEN Pt(1) ELSE Pt(j)]
Rings == {RingOf(n) : n \in 0..MaxCoords}

RECURSIVE Sum(_)
Sum(s) == IF s = <<>> THEN 0 ELSE Head(s) + Sum(Tail(s))

\* the sequence flat cut into consecutive pieces of the lengths counts
Split(flat, counts) ==
    [c \in 1..Len(counts) |->
        SubSeq(flat, Sum(SubSeq(counts, 1, c - 1)) + 1, Sum(SubSeq(counts, 1, c)))]

\* Vec<Vec<T>> of at most cells inner vectors holding at most total elements
Nested(T, cells, total) ==
    UNION {UNION {{Split(flat, counts) : flat \in [1..Sum(counts) -> T]} :
                   counts \in {cv \in [1..n -> 0..total] : Sum(cv) <= total}} :
           n \in 0..cells}

\* Vec<MultiPolygon<f32>>
CellPolygons == Nested(Rings, MaxCells, MaxPolys)

LayerIds == {-1, 4}
LayerShapes == {<<>>, <<RingOf(0), RingOf(MaxCoords)>>}
\* Vec<Vec<(i32, MultiPolygon<f32>)>>
LayeredPolygons == Nested(LayerIds \X LayerShapes, MaxCells, MaxLayers)

GeoName == Stem \o DotGz

Layered == entry = "write_cell_layered_multipolygons"
GeoEntries == {"write_cell_multipolygons", "write_cell_layered_multipolygons"}

\* lines 619 and 686
Envelope ==
    <<P("{"), Str("type"), P(":"), Str("FeatureCollection"), Comma,
      Str("features"), P(":"), P("[")>>

\* lines 628-635
FeatureOpen(cell) ==
    <<P("{"), Str("type"), P(":"), Str("Feature"), Comma,
      Str("properties"), P(":"), P("{"), Str("cell"), P(":"), Num(cell), P("}"), Comma,
      Str("geometry"), P(":"), P("{"), Str("type"), P(":"), Str("MultiPolygon"), Comma,
      Str("coordinates"), P(":"), P("[")>>

\* lines 701-709
LayeredFeatureOpen(cell, layer) ==
    <<P("{"), Str("type"), P(":"), Str("Feature"), Comma,
      Str("properties"), P(":"), P("{"), Str("cell"), P(":"), Num(cell), Comma,
      Str("layer"), P(":"), Num(layer), P("}"), Comma,
      Str("geometry"), P(":"), P("{"), Str("type"), P(":"), Str("MultiPolygon"), Comma,
      Str("coordinates"), P(":"), P("[")>>

\* lines 643, 717
PolyOpen == <<P("["), P("[")>>
\* lines 647, 721
CoordPair(c) == <<P("["), Num(c.x), Comma, Num(c.y), P("]")>>
\* lines 655, 729
PolyClose == <<P("]"), P("]")>>
\* lines 664, 738
FeatureClose == <<P("]"), P("}"), P("}")>>
\* lines 672, 749
Footer == <<P("]"), P("}")>>

\* usize subtraction; -1 stands for "attempt to subtract with overflow"
\* (a build without overflow checks wraps instead)
usize_sub(a, b) == IF a >= b THEN a - b ELSE -1

\* a variant that tests k < n, so that a comma follows every element
SepAlways(k, n) == IF k < n THEN <<Comma>> ELSE <<>>

\* `if k < n - 1 { writeln!(encoder, ",") } else { writeln!(encoder) }`
Sep(k, n) == IF k < usize_sub(n, 1) THEN <<Comma>> ELSE <<>>

\* the multipolygon of the feature being written (lines 624, 697)
CurPolys ==
    IF Layered THEN polygons[geo.cell + 1][geo.layer + 1][2]
    ELSE polygons[geo.cell + 1]
\* poly.exterior() of the polygon being written
CurRing == CurPolys[geo.i + 1]

tableState == <<filename, fmt, rfmt, schema, chunk>>
geoFrame == <<entry, output_path, polygons, ncalls, vote, args, tableState>>

\* lines 613, 680: the path is None and the function returns
GeoGuardNone ==
    /\ entry \in GeoEntries
    /\ pc = "geo_guard"
    /\ ~output_path.some
    /\ pc' = "done"
    /\ UNCHANGED <<sink, files, panic, geo, geoFrame>>

\* lines 614-615, 681-682: File::create and GzEncoder::new
GeoCreate ==
    /\ entry \in GeoEntries
    /\ pc = "geo_guard"
    /\ output_path.some
    /\ files' = Put(files, output_path.name, PlainFile(<<>>))
    /\ pc' = "geo_header"
    /\ UNCHANGED <<sink, panic, geo, geoFrame>>

\* lines 614, 681: File::create fails and unwrap panics
GeoCreateFail ==
    /\ entry \in GeoEntries
    /\ pc = "geo_guard"
    /\ output_path.some
    /\ Abort("geo_create")
    /\ UNCHANGED <<sink, files, geo, geoFrame>>

\* a variant that counts the cells, not the (cell, layer) pairs
\* lines 690-693
CountMultipolys(p) == Sum([c \in 1..Len(p) |-> Len(p[c])])

\* lines 617-623 and 684-695
GeoHeader ==
    /\ pc = "geo_header"
    /\ sink' = sink \o Envelope
    /\ geo' = [geo EXCEPT !.ncells = Len(polygons),
                          !.nmultipolys = IF Layered THEN CountMultipolys(polygons) ELSE 0,
                          !.cell = 0, !.layer = 0, !.count = 0]
    /\ pc' = "geo_cell"
    /\ UNCHANGED <<files, panic, geoFrame>>

\* a variant that writes the running feature count as the cell
FeatureIdCount == geo.count

\* the `cell` of enumerate(), lines 624 and 696
FeatureId == geo.cell

\* lines 624-641 and 697-715: the next feature's opening and npolys
GeoFeatureOpen ==
    /\ pc = "geo_cell"
    /\ geo.cell < Len(polygons)
    /\ Layered => geo.layer < Len(polygons[geo.cell + 1])
    /\ sink' = sink \o (IF Layered
                        THEN LayeredFeatureOpen(FeatureId, polygons[geo.cell + 1][geo.layer + 1][1])
                        ELSE FeatureOpen(FeatureId))
    /\ geo' = [geo EXCEPT !.npolys = Len(CurPolys), !.i = 0]
    /\ pc' = "geo_poly"
    /\ UNCHANGED <<files, panic, geoFrame>>

\* line 697: the inner loop of the layered writer has no pair left
LayersDone ==
    /\ Layered
    /\ geo.cell < Len(polygons)
    /\ geo.layer >= Len(polygons[geo.cell + 1])

\* lines 696-697: the layers of a cell are exhausted, on to the next cell
GeoNextCell ==
    /\ pc = "geo_cell"
    /\ LayersDone
    /\ geo' = [geo EXCEPT !.cell = geo.cell + 1, !.layer = 0]
    /\ UNCHANGED <<pc, sink, files, panic, geoFrame>>

\* lines 642-645 and 716-719
GeoPolyOpen ==
    /\ pc = "geo_poly"
    /\ geo.i < geo.npolys
    /\ sink' = sink \o PolyOpen
    /\ geo' = [geo EXCEPT !.ncoords = Len(CurRing), !.j = 0]
    /\ pc' = "geo_coord"
    /\ UNCHANGED <<files, panic, geoFrame>>

\* lines 646-653 and 720-727
GeoCoord ==
    /\ pc = "geo_coord"
    /\ geo.j < geo.ncoords
    /\ IF usize_sub(geo.ncoords, 1) < 0
       THEN Abort("overflow") /\ UNCHANGED <<sink, geo>>
       ELSE /\ sink' = sink \o CoordPair(CurRing[geo.j + 1]) \o Sep(geo.j, geo.ncoords)
            /\ geo' = [geo EXCEPT !.j = geo.j + 1]
            /\ UNCHANGED <<pc, panic>>
    /\ UNCHANGED <<files, geoFrame>>

\* lines 655-661 and 729-735
GeoPolyClose ==
    /\ pc = "geo_coord"
    /\ geo.j >= geo.ncoords
    /\ IF usize_sub(geo.npolys, 1) < 0
       THEN Abort("overflow") /\ UNCHANGED <<sink, geo>>
       ELSE /\ sink' = sink \o PolyClose \o Sep(geo.i, geo.npolys)
            /\ geo' = [geo EXCEPT !.i = geo.i + 1]
            /\ pc' = "geo_poly"
            /\ UNCHANGED panic
    /\ UNCHANGED <<files, geoFrame>>

\* a variant of the layered writer that keeps the test of line 665
FeatureSepByCell == Sep(geo.cell, geo.ncells)

\* lines 665-669 and 739-743
FeatureSep ==
    IF Layered THEN Sep(geo.count, geo.nmultipolys) ELSE Sep(geo.cell, geo.ncells)

\* lines 664-669 and 738-745
GeoFeatureClose ==
    /\ pc = "geo_poly"
    /\ geo.i >= geo.npolys
    /\ IF usize_sub(IF Layered THEN geo.nmultipolys ELSE geo.ncells, 1) < 0
       THEN Abort("overflow") /\ UNCHANGED <<sink, geo>>
       ELSE /\ sink' = sink \o FeatureClose \o FeatureSep
            /\ geo' = IF Layered
                      THEN [geo EXCEPT !.count = geo.count + 1, !.layer = geo.layer + 1]
                      ELSE [geo EXCEPT !.cell = geo.cell + 1]
            /\ pc' = "geo_cell"
            /\ UNCHANGED panic
    /\ UNCHANGED <<files, geoFrame>>

\* lines 672, 749
GeoFooter ==
    /\ pc = "geo_cell"
    /\ geo.cell >= Len(polygons)
    /\ sink' = sink \o Footer
    /\ pc' = "geo_finish"
    /\ UNCHANGED <<files, panic, geo, geoFrame>>

\* lines 673, 750: the encoder is dropped, which finishes the gzip stream
GeoFinish ==
    /\ pc = "geo_finish"
    /\ files' = Put(files, output_path.name, GzFile(sink, TRUE))
    /\ pc' = "done"
    /\ UNCHANGED <<sink, panic, geo, geoFrame>>

\* lines 673, 750: GzEncoder's drop discards the error of a failed finish
GeoFinishLost ==
    /\ pc = "geo_finish"
    /\ files' = Put(files, output_path.name, GzFile(sink, FALSE))
    /\ pc' = "done"
    /\ UNCHANGED <<sink, panic, geo, geoFrame>>

\* a write!/writeln! returns Err and unwrap panics
GeoWriteFail ==
    /\ \/ pc \in {"geo_header", "geo_poly", "geo_coord"}
       \/ pc = "geo_cell" /\ ~LayersDone
    /\ Abort("geo_write")
    /\ UNCHANGED <<sink, files, geo, geoFrame>>

GeoStep ==
    \/ GeoGuardNone
    \/ GeoCreate
    \/ GeoCreateFail
    \/ GeoHeader
    \/ GeoFeatureOpen
    \/ GeoNextCell
    \/ GeoPolyOpen
    \/ GeoCoord
    \/ GeoPolyClose
    \/ GeoFeatureClose
    \/ GeoFooter
    \/ GeoFinish
    \/ GeoFinishLost
    \/ GeoWriteFail

InitGeo ==
    /\ entry \in GeoEntries
    /\ output_path \in {None, Some(GeoName)}
    /\ polygons \in (IF Layered THEN LayeredPolygons ELSE CellPolygons)
    /\ filename = <<>>
    /\ fmt = "Infer"
    /\ rfmt = "unset"
    /\ schema = <<>>
    /\ chunk = <<>>
    /\ sink = <<>>
    /\ files = NoFiles
    /\ pc = "geo_guard"
    /\ panic = "none"
    /\ ncalls = 0
    /\ geo = NoGeo
    /\ vote = NoVote
    /\ args = NoArgs

NextGeo == GeoStep

SpecGeo == InitGeo /\ [][NextGeo]_vars

----------------------------------------------------------------------------
(* cell_fov_vote, lines 277-304.  fov_votes is the ncells x nfovs matrix as  *)
(* a sequence of rows; cells and fovs are zero-based as in the code, rows    *)
(* and columns of the matrix are one-based.                                  *)

MaxVoteCells == 2
MaxFovs == 2
MaxTranscripts == 2

\* u32::MAX, the sentinel of line 293; the model counts in 31 bits, where it
\* is the largest value
U32_MAX == 2147483647

\* imported from sampler::transcripts: the cell of an unassigned transcript,
\* a value no cell index reaches
BACKGROUND_CELL == U32_MAX

CellIds == (0..MaxVoteCells - 1) \cup {BACKGROUND_CELL}
FovIds == 0..MaxFovs - 1

\* cell_assignments: &[(u32, f32)], the cell and the probability
Assignments(n) == SeqsUpTo({<<c, 1>> : c \in CellIds}, n)

\* the arguments of cell_fov_vote with at most n transcripts
VoteInputs(n) ==
    [ncells : 0..MaxVoteCells, nfovs : 0..MaxFovs,
     cell_assignments : Assignments(n), fovs : SeqsUpTo(FovIds, n)]

\* Array2::<u32>::zeros((ncells, nfovs))
Zeros(ncells, nfovs) == [c \in 1..ncells |-> [f \in 1..nfovs |-> 0]]

\* Iterator::zip stops at the shorter of the two slices
ZipLen(a, b) == Min(Len(a), Len(b))

\* lines 284-288 from the t-th pair on; ok is FALSE when the index of line
\* 286 is out of bounds and the call panics
RECURSIVE Tally(_, _, _, _, _, _)
Tally(fov_votes, ncells, nfovs, cell_assignments, fovs, t) ==
    IF t > ZipLen(fovs, cell_assignments) THEN [ok |-> TRUE, m |-> fov_votes]
    ELSE LET cell == cell_assignments[t][1]
             fov == fovs[t]
         IN IF cell # BACKGROUND_CELL
            THEN IF cell < ncells /\ fov < nfovs
                 THEN Tally([fov_votes EXCEPT ![cell + 1][fov + 1] = @ + 1],
                            ncells, nfovs, cell_assignments, fovs, t + 1)
                 ELSE [ok |-> FALSE, m |-> fov_votes]
            ELSE Tally(fov_votes, ncells, nfovs, cell_assignments, fovs, t + 1)

\* a variant in which a later fov with the same count takes over
BeatsOrTies(count, winner_count) == count >= winner_count

\* line 296
Beats(count, winner_count) == count > winner_count

\* lines 295-300 from fov on
RECURSIVE Scan(_, _, _, _)
Scan(votes, fov, winner, winner_count) ==
    IF fov >= Len(votes) THEN winner
    ELSE IF Beats(votes[fov + 1], winner_count)
         THEN Scan(votes, fov + 1, fov, votes[fov + 1])
         ELSE Scan(votes, fov + 1, winner, winner_count)

\* a variant that starts from fov 0 instead of the sentinel
WinnerFromZero(votes) == Scan(votes, 0, 0, 0)

\* lines 293-301: the closure of the map
Winner(votes) == Scan(votes, 0, U32_MAX, 0)

voteFrame == <<entry, output_path, filename, fmt, rfmt, sink, files, ncalls,
               tableVars, geoVars, args>>

\* lines 283-288
VoteTally ==
    /\ pc = "vote_tally"
    /\ LET r == Tally(Zeros(vote.ncells, vote.nfovs), vote.ncells, vote.nfovs,
                      vote.cell_assignments, vote.fovs, 1)
       IN IF r.ok
          THEN /\ vote' = [vote EXCEPT !.fov_votes = r.m]
               /\ pc' = "vote_winners"
               /\ UNCHANGED panic
          ELSE Abort("index") /\ UNCHANGED vote
    /\ UNCHANGED voteFrame

\* lines 290-303; the vector goes back to the caller
VoteWinners ==
    /\ pc = "vote_winners"
    /\ vote' = [vote EXCEPT !.cell_fovs =
                   [c \in 1..Len(vote.fov_votes) |-> Winner(vote.fov_votes[c])]]
    /\ pc' = IF entry = "cell_fov_vote" THEN "done" ELSE "w_guard"
    /\ UNCHANGED <<panic, voteFrame>>

VoteStep == VoteTally \/ VoteWinners

\* the locals of a call with the arguments v
VoteOf(v) ==
    [ncells |-> v.ncells, nfovs |-> v.nfovs, cell_assignments |-> v.cell_assignments,
     fovs |-> v.fovs, fov_votes |-> <<>>, cell_fovs |-> <<>>]

InitVote ==
    /\ entry = "cell_fov_vote"
    /\ output_path = None
    /\ filename = <<>>
    /\ fmt = "Infer"
    /\ rfmt = "unset"
    /\ schema = <<>>
    /\ chunk = <<>>
    /\ sink = <<>>
    /\ files = NoFiles
    /\ pc = "vote_tally"
    /\ panic = "none"
    /\ ncalls = 0
    /\ polygons = <<>>
    /\ geo = NoGeo
    /\ vote \in {VoteOf(v) : v \in VoteInputs(MaxTranscripts)}
    /\ args = NoArgs

NextVote == VoteStep

SpecVote == InitVote /\ [][NextVote]_vars

----------------------------------------------------------------------------
(* The artifact writers that build a table, lines 141-602.  Each checks its  *)
(* Option<String> path, builds a schema and a chunk from its arguments and   *)
(* hands them to write_table.  Numbers stand for the u32, u64 and f32        *)
(* values alike.                                                             *)

MaxGenes == 2
MaxComponents == 2
MaxWriterTranscripts == 1

TableWriters ==
    {"write_counts", "write_expected_counts", "write_rates",
     "write_component_params", "write_cell_metadata",
     "write_transcript_metadata", "write_gene_metadata", "write_voxels"}

ArtifactWriters == TableWriters \cup GeoEntries

WriterNames == {Stem \o DotCsvGz, Stem \o DotParquet, Stem \o DotTxt}
WriterFormats == {"Infer", "Csv"}

FovNames == <<"f0", "f1", "f2", "f3">>

Null == Tok("null", "", 0)
NaN == Tok("nan", "", 0)
\* the f32 of sum / count
Ratio(sum, count) == IF count = 0 THEN NaN ELSE Tok("ratio", ToString(count), sum)
\* the f32 of x.exp()
Exp(x) == Tok("exp", "", x)

NumCol(s) == [k \in 1..Len(s) |-> Num(s[k])]
StrCol(s) == [k \in 1..Len(s) |-> Str(s[k])]

\* an Array2 of r rows and c columns, as its rows
Matrix(r, c, base) == [i \in 1..r |-> [j \in 1..c |-> base + 10 * i + j]]

\* ModelParams: the arrays the writers read, for the given dimensions
ParamsOf(ncells, ngenes, ncomponents, nlayers) ==
    [ncells |-> ncells, ngenes |-> ngenes, ncomponents |-> ncomponents,
     nlayers |-> nlayers,
     lambda |-> Matrix(ngenes, ncells, 0),
     r |-> Matrix(ncomponents, ngenes, 100),
     phi |-> Matrix(ncomponents, ngenes, 200),
     z |-> [c \in 1..ncells |-> (c - 1) % ncomponents],
     cell_volume |-> [c \in 1..ncells |-> 300 + c],
     cell_population |-> [c \in 1..ncells |-> 400 + c],
     total_gene_counts |-> Matrix(ngenes, nlayers, 500),
     lambda_bg |-> Matrix(ngenes, nlayers, 600)]

NoParams == ParamsOf(0, 0, 1, 0)

Params ==
    {ParamsOf(nc, ng, k, nl) :
        nc \in 0..MaxVoteCells, ng \in 0..MaxGenes, k \in 1..MaxComponents, nl \in 0..1}

NoWriterArgs ==
    [transcript_names |-> <<>>, matrix |-> <<>>, params |-> NoParams,
     cell_centroids |-> <<>>, cell_assignments |-> <<>>, fovs |-> <<>>,
     fov_names |-> <<>>, transcripts |-> <<>>, transcript_positions |-> <<>>,
     transcript_state |-> <<>>, voxels |-> <<>>, dbg |-> <<>>]

TranscriptNames == {SubSeq(GeneNames, 1, n) : n \in 0..MaxGenes}
Matrices == {Matrix(r, c, 0) : r \in 0..MaxGenes, c \in 0..MaxVoteCells}
Centroids(n) == [c \in 1..n |-> <<700 + c, 710 + c, 720 + c>>]

\* the arguments of write_counts and write_expected_counts
MatrixArgs ==
    {[NoWriterArgs EXCEPT !.transcript_names = names, !.matrix = m] :
        names \in TranscriptNames, m \in Matrices}

\* the arguments of write_rates and write_component_params
ParamsArgs ==
    {[NoWriterArgs EXCEPT !.transcript_names = names, !.params = p] :
        names \in TranscriptNames, p \in Params}

\* the arguments of write_gene_metadata
GeneArgs ==
    {[a EXCEPT !.matrix = Matrix(a.params.ngenes, a.params.ncells, 0)] : a \in ParamsArgs}

\* the arguments of write_cell_metadata
CellArgs ==
    {[NoWriterArgs EXCEPT !.params = ParamsOf(pn, 0, 1, 0),
                          !.cell_centroids = Centroids(v.ncells),
                          !.cell_assignments = v.cell_assignments,
                          !.fovs = v.fovs,
                          !.fov_names = SubSeq(FovNames, 1, v.nfovs)] :
        v \in VoteInputs(MaxWriterTranscripts), pn \in 0..MaxVoteCells}

TranscriptStates == <<"Foreground", "Background", "Confusion">>

\* the arguments of write_transcript_metadata: the per-transcript arrays but
\* fovs have one length
TranscriptArgs ==
    {[NoWriterArgs EXCEPT
         !.transcripts = [t \in 1..Len(ts) |->
                             [transcript_id |-> 800 + t, x |-> 810 + t, y |-> 820 + t,
                              z |-> 830 + t, gene |-> ts[t][1]]],
         !.transcript_positions = Centroids(Len(ts)),
         !.cell_assignments = [t \in 1..Len(ts) |-> <<ts[t][2], 1>>],
         !.transcript_state = [t \in 1..Len(ts) |-> TranscriptStates[(t % 3) + 1]],
         !.transcript_names = names,
         !.fovs = fs,
         !.fov_names = SubSeq(FovNames, 1, nf)] :
        ts \in SeqsUpTo((0..MaxGenes - 1) \X {0, BACKGROUND_CELL}, MaxWriterTranscripts),
        names \in TranscriptNames,
        fs \in SeqsUpTo(FovIds, MaxWriterTranscripts),
        nf \in 0..MaxFovs}

\* the arguments of write_voxels: what sampler.voxels() yields
VoxelArgs ==
    {[NoWriterArgs EXCEPT !.voxels =
         [v \in 1..n |-> <<v - 1, <<v, v + 10, v + 20, v + 30, v + 40, v + 50>>>>]] :
        n \in 0..MaxRows}

WriterArgs(e) ==
    IF e \in {"write_counts", "write_expected_counts"} THEN MatrixArgs
    ELSE IF e \in {"write_rates", "write_component_params"} THEN ParamsArgs
    ELSE IF e = "write_gene_metadata" THEN GeneArgs
    ELSE IF e = "write_cell_metadata" THEN CellArgs
    ELSE IF e = "write_transcript_metadata" THEN TranscriptArgs
    ELSE VoxelArgs

\* the table a writer hands to write_table, or the panic that ends the call
Built(names, columns) == [panic |-> "none", schema |-> names, columns |-> columns]
Panicked(kind) == [panic |-> kind, schema |-> <<>>, columns |-> <<>>]

\* Chunk::new: the arrays of a chunk must have one length
ChunkNew(names, columns) ==
    IF \A k \in 1..Len(columns) : Len(columns[k]) = Len(columns[1])
    THEN Built(names, columns)
    ELSE Panicked("chunk")

\* the sums of the rows of a matrix: sum_axis(Axis(1))
RowSums(m) == [i \in 1..Len(m) |-> Sum(m[i])]
\* column j of a matrix
Column(m, j) == [i \in 1..Len(m) |-> m[i][j]]

\* a variant that takes the columns of the matrix for the columns of the table
MatrixTableByColumns(names, m) ==
    ChunkNew(names, [j \in 1..(IF m = <<>> THEN 0 ELSE Len(m[1])) |-> NumCol(Column(m, j))])

\* lines 148-165, 176-193, 209-226: a field per name, a column per matrix row
MatrixTable(names, m) ==
    ChunkNew(names, [k \in 1..Len(m) |-> NumCol(m[k])])

\* lines 237-265: gene, then alpha_i and beta_i for each component
ComponentParamsTable(a) ==
    LET p == a.params IN
    ChunkNew(<<"gene">> \o Flatten([i \in 1..p.ncomponents |->
                                       <<"alpha_" \o ToString(i - 1),
                                         "beta_" \o ToString(i - 1)>>]),
             <<StrCol(a.transcript_names)>>
                 \o Flatten([i \in 1..p.ncomponents |->
                               <<NumCol(p.r[i]),
                                 [g \in 1..p.ngenes |-> Exp(0 - p.phi[i][g])]>>]))

\* a variant that writes an empty name where no vote was cast
FovValueEmptyName(fov, fov_names) ==
    IF fov = U32_MAX THEN Str("") ELSE Str(fov_names[fov + 1])

\* lines 343-349: the closure that maps a vote to the fov column
FovValue(fov, fov_names) ==
    IF fov = U32_MAX THEN Null ELSE Str(fov_names[fov + 1])

\* lines 320-361
CellMetadataTable(a, cell_fovs) ==
    LET p == a.params
        cc == a.cell_centroids
    IN ChunkNew(<<"cell", "centroid_x", "centroid_y", "centroid_z", "fov", "cluster",
                  "volume", "population">>,
                <<[c \in 1..p.ncells |-> Num(c - 1)],
                  [c \in 1..Len(cc) |-> Num(cc[c][1])],
                  [c \in 1..Len(cc) |-> Num(cc[c][2])],
                  [c \in 1..Len(cc) |-> Num(cc[c][3])],
                  [c \in 1..Len(cell_fovs) |-> FovValue(cell_fovs[c], a.fov_names)],
                  NumCol(p.z),
                  NumCol(p.cell_volume),
                  NumCol(p.cell_population)>>)

\* lines 390-453; the indexing of lines 431 and 434 panics out of bounds
TranscriptMetadataTable(a) ==
    LET ts == a.transcripts
        tp == a.transcript_positions
        ca == a.cell_assignments
        st == a.transcript_state
    IN IF \/ \E t \in 1..Len(ts) : ts[t].gene >= Len(a.transcript_names)
          \/ \E t \in 1..Len(a.fovs) : a.fovs[t] >= Len(a.fov_names)
       THEN Panicked("index")
       ELSE ChunkNew(
                <<"transcript_id", "x", "y", "z", "observed_x", "observed_y",
                  "observed_z", "gene", "fov", "assignment", "probability",
                  "background", "confusion">>,
                <<[t \in 1..Len(ts) |-> Num(ts[t].transcript_id)],
                  [t \in 1..Len(tp) |-> Num(tp[t][1])],
                  [t \in 1..Len(tp) |-> Num(tp[t][2])],
                  [t \in 1..Len(tp) |-> Num(tp[t][3])],
                  [t \in 1..Len(ts) |-> Num(ts[t].x)],
                  [t \in 1..Len(ts) |-> Num(ts[t].y)],
                  [t \in 1..Len(ts) |-> Num(ts[t].z)],
                  [t \in 1..Len(ts) |-> Str(a.transcript_names[ts[t].gene + 1])],
                  [t \in 1..Len(a.fovs) |-> Str(a.fov_names[a.fovs[t] + 1])],
                  [t \in 1..Len(ca) |-> Num(ca[t][1])],
                  [t \in 1..Len(ca) |-> Num(ca[t][2])],
                  [t \in 1..Len(st) |-> Num(IF st[t] = "Background" THEN 1 ELSE 0)],
                  [t \in 1..Len(st) |-> Num(IF st[t] = "Confusion" THEN 1 ELSE 0)]>>)

\* lines 519-530: the mean rate of the cells of component i, per gene
LambdaComponent(p, i) ==
    LET cells == {c \in 1..p.ncells : p.z[c] = i} IN
    [g \in 1..p.ngenes |->
        Ratio(Sum([c \in 1..p.ncells |-> IF c \in cells THEN p.lambda[g][c] ELSE 0]),
              Cardinality(cells))]

\* lines 472-540
GeneMetadataTable(a) ==
    LET p == a.params IN
    ChunkNew(<<"gene", "total_count", "expected_assigned_count">>
                 \o [i \in 1..p.ncomponents |-> "dispersion_" \o ToString(i - 1)]
                 \o [i \in 1..p.ncomponents |-> "lambda_" \o ToString(i - 1)]
                 \o [i \in 1..p.nlayers |-> "lambda_bg_" \o ToString(i - 1)],
             <<StrCol(a.transcript_names),
               NumCol(RowSums(p.total_gene_counts)),
               NumCol(RowSums(a.matrix))>>
                 \o [i \in 1..p.ncomponents |-> NumCol(p.r[i])]
                 \o [i \in 1..p.ncomponents |-> LambdaComponent(p, i - 1)]
                 \o [i \in 1..p.nlayers |-> NumCol(Column(p.lambda_bg, i))])

\* lines 558-598
VoxelsTable(a) ==
    LET vs == a.voxels IN
    ChunkNew(<<"cell", "x0", "y0", "z0", "x1", "y1", "z1">>,
             <<[v \in 1..Len(vs) |-> Num(vs[v][1])]>>
                 \o [k \in 1..6 |-> [v \in 1..Len(vs) |-> Num(vs[v][2][k])]])

\* the schema and chunk the running writer builds
TableBuilt ==
    IF entry \in {"write_counts", "write_expected_counts"}
    THEN MatrixTable(args.transcript_names, args.matrix)
    ELSE IF entry = "write_rates"
    THEN MatrixTable(args.transcript_names, args.params.lambda)
    ELSE IF entry = "write_component_params" THEN ComponentParamsTable(args)
    ELSE IF entry = "write_cell_metadata" THEN CellMetadataTable(args, vote.cell_fovs)
    ELSE IF entry = "write_transcript_metadata" THEN TranscriptMetadataTable(args)
    ELSE IF entry = "write_gene_metadata" THEN GeneMetadataTable(args)
    ELSE VoxelsTable(args)

writerFrame == <<entry, output_path, fmt, sink, files, ncalls, geoVars>>

\* lines 315-317: write_cell_metadata votes before it looks at its path
WCallVote ==
    /\ pc = "w_vote"
    /\ vote' = VoteOf([ncells |-> Len(args.cell_centroids),
                       nfovs |-> Len(args.fov_names),
                       cell_assignments |-> args.cell_assignments,
                       fovs |-> args.fovs])
    /\ pc' = "vote_tally"
    /\ UNCHANGED <<panic, filename, rfmt, tableVars, args, writerFrame>>

\* lines 385-387: write_transcript_metadata prints three lengths to stderr
WDbg ==
    /\ pc = "w_dbg"
    /\ args' = [args EXCEPT !.dbg = <<Len(args.fovs), Len(args.fov_names),
                                      Len(args.transcripts)>>]
    /\ pc' = "w_guard"
    /\ UNCHANGED <<panic, filename, rfmt, tableVars, vote, writerFrame>>

\* `if let Some(..) = ..` with None: the body is skipped and the writer returns
WGuardNone ==
    /\ pc = "w_guard"
    /\ ~output_path.some
    /\ pc' = "done"
    /\ UNCHANGED <<panic, filename, rfmt, tableVars, vote, args, writerFrame>>

\* `if let Some(..) = ..` with Some: the table is built and write_table called
WBuild ==
    /\ pc = "w_guard"
    /\ output_path.some
    /\ LET t == TableBuilt IN
       IF t.panic # "none"
       THEN Abort(t.panic) /\ UNCHANGED <<filename, rfmt, tableVars>>
       ELSE /\ schema' = t.schema
            /\ chunk' = t.columns
            /\ filename' = output_path.name
            /\ rfmt' = "unset"
            /\ pc' = "wt_resolve"
            /\ UNCHANGED panic
    /\ UNCHANGED <<vote, args, writerFrame>>

WriterStep == WCallVote \/ WDbg \/ WGuardNone \/ WBuild

InitWriters ==
    /\ entry \in TableWriters
    /\ output_path \in {None} \cup {Some(n) : n \in WriterNames}
    /\ fmt \in WriterFormats
    /\ args \in WriterArgs(entry)
    /\ filename = <<>>
    /\ rfmt = "unset"
    /\ schema = <<>>
    /\ chunk = <<>>
    /\ sink = <<>>
    /\ files = NoFiles
    /\ pc = IF entry = "write_cell_metadata" THEN "w_vote"
            ELSE IF entry = "write_transcript_metadata" THEN "w_dbg"
            ELSE "w_guard"
    /\ panic = "none"
    /\ ncalls = 0
    /\ polygons = <<>>
    /\ geo = NoGeo
    /\ vote = NoVote

NextWriters == WriterStep \/ VoteStep \/ WriteTableStep

SpecWriters == InitWriters /\ [][NextWriters]_vars

----------------------------------------------------------------------------
(* Properties of write_table and infer_format_from_filename. *)

Concrete == {"Csv", "CsvGz", "Parquet"}
KnownSuffix(name) ==
    ends_with(name, DotCsv) \/ ends_with(name, DotCsvGz) \/ ends_with(name, DotParquet)
Resolved == entry = "write_table" /\ pc \notin {"idle", "wt_resolve"}
EncOf(f) == IF f = "Csv" THEN "plain" ELSE IF f = "CsvGz" THEN "gzip" ELSE "parquet"

\* C1: once write_table has resolved a requested Infer, the format is CsvGz for
\* a name ending in ".csv.gz", else Csv for ".csv", else Parquet for ".parquet";
\* for any other name the call has panicked with "Unknown file format" and
\* holds no format.
C1_InferBySuffix ==
    (Resolved /\ fmt = "Infer") =>
        /\ ends_with(filename, DotCsvGz) => (rfmt = "CsvGz" /\ panic # "unknown_format")
        /\ (~ends_with(filename, DotCsvGz) /\ ends_with(filename, DotCsv))
              => (rfmt = "Csv" /\ panic # "unknown_format")
        /\ (~ends_with(filename, DotCsvGz) /\ ~ends_with(filename, DotCsv)
               /\ ends_with(filename, DotParquet))
              => (rfmt = "Parquet" /\ panic # "unknown_format")
        /\ ~KnownSuffix(filename)
              => (pc = "panicked" /\ panic = "unknown_format" /\ rfmt = "unset")

C1_Witness ==
    /\ Resolved /\ fmt = "Infer" /\ pc = "done"
    /\ ends_with(filename, DotCsvGz) /\ rfmt = "CsvGz"

\* C2: a requested format other than Infer is the format used, whatever the
\* name: no "Unknown file format" panic, and the file a returned call leaves is
\* in the requested encoding.
C2_ExplicitFormatKept ==
    (Resolved /\ fmt # "Infer") =>
        /\ rfmt = fmt
        /\ panic # "unknown_format"
        /\ pc = "done" => (filename \in DOMAIN files /\ files[filename].enc = EncOf(fmt))

C2_Witness ==
    /\ Resolved /\ fmt = "Parquet" /\ pc = "done"
    /\ ends_with(filename, DotCsv)
    /\ files[filename].enc = "parquet"

\* C3: a step of write_table that resolves Infer on a name with no known suffix
\* panics and leaves every file as it was, and no file is created, truncated or
\* written before the format is resolved to a concrete one.
C3_ResolveBeforeCreate ==
    /\ [][(pc = "wt_resolve" /\ fmt = "Infer" /\ ~KnownSuffix(filename))
             => (pc' = "panicked" /\ panic' = "unknown_format" /\ files' = files)]_vars
    /\ [][(entry = "write_table" /\ files' # files) => rfmt \in Concrete]_vars

\* an earlier call left a file at the name, and the doomed call kept it
C3_Witness ==
    /\ entry = "write_table" /\ pc = "panicked" /\ panic = "unknown_format"
    /\ fmt = "Infer"
    /\ filename \in DOMAIN files
    /\ files[filename].data # <<>>

\* C10: once calls have returned, a finished gzip file inflates to exactly the
\* bytes of a plain file written from the same schema and chunk, and the stream
\* handed to the GzEncoder is that plain file's bytes.
C10_GzInflatesToCsv ==
    (entry = "write_table" /\ pc = "done") =>
        \A f1, f2 \in DOMAIN files :
            (files[f1].enc = "plain" /\ files[f2].enc = "gzip" /\ files[f2].closed)
                => /\ Inflate(files[f2].data) = files[f1].data
                   /\ (rfmt = "CsvGz" /\ f2 = filename) => sink = files[f1].data

C10_Witness ==
    /\ entry = "write_table" /\ pc = "done" /\ rfmt = "CsvGz"
    /\ files[filename].enc = "gzip" /\ files[filename].closed
    /\ \E f1 \in DOMAIN files :
          /\ files[f1].enc = "plain"
          /\ Len(files[f1].data) > Len(schema) + 2
          /\ Inflate(files[filename].data) = files[f1].data

----------------------------------------------------------------------------
(* Properties of the GeoJSON writers. *)

IsOpen(tok) == tok.s = "{" \/ tok.s = "["
IsClose(tok) == tok.s = "}" \/ tok.s = "]"
IsComma(tok) == tok.s = ","
IsScalar(tok) == tok.k # "p"
Colon == P(":")

\* for t[lo..hi]: the nesting depth of each token relative to lo, and the net
\* depth of the whole range (by halves)
RECURSIVE DepthRange(_, _, _)
DepthRange(t, lo, hi) ==
    IF lo > hi THEN [before |-> <<>>, net |-> 0]
    ELSE IF lo = hi
    THEN [before |-> <<0>>,
          net |-> IF IsOpen(t[lo]) THEN 1 ELSE IF IsClose(t[lo]) THEN -1 ELSE 0]
    ELSE LET mid == (lo + hi) \div 2
             a == DepthRange(t, lo, mid)
             b == DepthRange(t, mid + 1, hi)
         IN [before |-> a.before \o [k \in 1..Len(b.before) |-> b.before[k] + a.net],
             net |-> a.net + b.net]

DepthBefore(t) == DepthRange(t, 1, Len(t)).before

\* the start of the sibling that follows the separator or boundary b
NextBound(bounds, b) == CHOOSE c \in bounds : c > b /\ \A d \in bounds : d > b => c <= d

\* t[lo..hi] is exactly one JSON value: a scalar, or a bracketed list whose
\* elements (members "key": value of an object) are values separated by commas
RECURSIVE ValidValue(_, _, _, _)
ValidValue(t, depth, lo, hi) ==
    \/ lo = hi /\ IsScalar(t[lo])
    \/ /\ lo < hi
       /\ \/ t[lo] = P("[") /\ t[hi] = P("]")
          \/ t[lo] = P("{") /\ t[hi] = P("}")
       /\ \/ lo + 1 = hi
          \/ LET seps == {k \in lo + 1..hi - 1 : IsComma(t[k]) /\ depth[k] = depth[lo] + 1}
                 bounds == seps \cup {lo, hi}
             IN \A b \in seps \cup {lo} :
                   LET a == b + 1
                       e == NextBound(bounds, b) - 1
                   IN /\ a <= e
                      /\ IF t[lo] = P("{")
                         THEN /\ a + 2 <= e
                              /\ t[a].k = "str"
                              /\ t[a + 1] = Colon
                              /\ ValidValue(t, depth, a + 2, e)
                         ELSE ValidValue(t, depth, a, e)

ValidJson(t) == t # <<>> /\ ValidValue(t, DepthBefore(t), 1, Len(t))

\* the features the input asks for, in input order
FeatureList ==
    IF Layered
    THEN Flatten([c \in 1..Len(polygons) |->
                    [l \in 1..Len(polygons[c]) |->
                        [cell |-> c - 1, layer |-> polygons[c][l][1],
                         polys |-> polygons[c][l][2]]]])
    ELSE [c \in 1..Len(polygons) |-> [cell |-> c - 1, layer |-> 0, polys |-> polygons[c]]]

\* the document with a separator between consecutive siblings and nowhere else
RefRing(r) == Flatten(Join([j \in 1..Len(r) |-> CoordPair(r[j])], <<Comma>>))
RefPolys(mp) ==
    Flatten(Join([i \in 1..Len(mp) |-> PolyOpen \o RefRing(mp[i]) \o PolyClose], <<Comma>>))
RefFeature(f) ==
    (IF Layered THEN LayeredFeatureOpen(f.cell, f.layer) ELSE FeatureOpen(f.cell))
        \o RefPolys(f.polys) \o FeatureClose
RefDoc ==
    Envelope
        \o Flatten(Join([k \in 1..Len(FeatureList) |-> RefFeature(FeatureList[k])], <<Comma>>))
        \o Footer

\* every token the writer wrote is in the sink
GeoWritten == entry \in GeoEntries /\ output_path.some /\ pc \in {"geo_finish", "done"}

NoStraySeparator(t) ==
    \A k \in 1..Len(t) - 1 :
        /\ ~(IsComma(t[k]) /\ (IsClose(t[k + 1]) \/ IsComma(t[k + 1])))
        /\ ~(IsOpen(t[k]) /\ IsComma(t[k + 1]))
        /\ ~(IsClose(t[k]) /\ (IsOpen(t[k + 1]) \/ IsScalar(t[k + 1])))

\* C4: in both writers no comma is ever written before a closing bracket or
\* right after an opening one and no two siblings meet without one; the
\* finished document has, at the levels of features, polygons and coordinate
\* pairs, a comma exactly between consecutive siblings.
C4_CommaBetweenSiblingsOnly ==
    entry \in GeoEntries =>
        /\ pc # "panicked" => NoStraySeparator(sink)
        /\ GeoWritten => sink = RefDoc

\* three cells, the first with two polygons, a ring of two coordinates
C4_Witness ==
    /\ GeoWritten /\ pc = "done" /\ ~Layered
    /\ Len(polygons) = 3
    /\ Len(polygons[1]) = 2
    /\ Len(polygons[1][1]) = 2
    /\ Len(polygons[3]) = 0

FeatureCommas(t) ==
    LET depth == DepthBefore(t) IN {k \in 1..Len(t) : IsComma(t[k]) /\ depth[k] = 2}

\* C5: for every input the writers never panic on their own arithmetic and
\* never write past the document, and the tokens of a finished run form one valid
\* JSON value: a single FeatureCollection object, whose features array is
\* empty for an input without features and holds no separator for one feature.
C5_ValidJson ==
    entry \in GeoEntries =>
        /\ panic # "overflow"
        /\ output_path.some /\ pc # "panicked" => SubSeq(RefDoc, 1, Len(sink)) = sink
        /\ GeoWritten =>
              /\ ValidJson(sink)
              /\ Cardinality({k \in 1..Len(sink) : sink[k] = Str("FeatureCollection")}) = 1
              /\ SubSeq(sink, 1, Len(Envelope)) = Envelope
              /\ Len(FeatureList) = 0 => sink = Envelope \o Footer
              /\ Len(FeatureList) = 1 => FeatureCommas(sink) = {}

\* two cells of the layered writer, the first with two layers, the second with none
C5_Witness ==
    /\ GeoWritten /\ pc = "done" /\ Layered
    /\ Len(polygons) = 2
    /\ Len(polygons[1]) = 2
    /\ Len(polygons[2]) = 0
    /\ ValidJson(sink)

Positions(t, tok) == {k \in 1..Len(t) : t[k] = tok}
Nth(S, j) == CHOOSE k \in S : Cardinality({i \in S : i <= k}) = j

\* C6: the finished document holds one Feature per entity (one per (cell,
\* layer) pair in the layered writer, as many as the layer lists are long in
\* total), in input order; the "cell" of each is the zero-based position of its
\* cell in polygons and the "layer" is the pair's layer id.
C6_FeatureIdentities ==
    GeoWritten =>
        LET cells == Positions(sink, Str("cell"))
            n == IF Layered THEN Sum([c \in 1..Len(polygons) |-> Len(polygons[c])])
                 ELSE Len(polygons)
        IN /\ Cardinality(cells) = n
           /\ Cardinality(Positions(sink, Str("Feature"))) = n
           /\ Cardinality(Positions(sink, Str("layer"))) = IF Layered THEN n ELSE 0
           /\ \A c \in 1..Len(polygons) :
                 IF Layered
                 THEN \A l \in 1..Len(polygons[c]) :
                         LET k == Nth(cells, Sum([d \in 1..c - 1 |-> Len(polygons[d])]) + l)
                         IN /\ sink[k + 2] = Num(c - 1)
                            /\ sink[k + 4] = Str("layer")
                            /\ sink[k + 6] = Num(polygons[c][l][1])
                 ELSE sink[Nth(cells, c) + 2] = Num(c - 1)

\* a cell without layers between two cells with layers
C6_Witness ==
    /\ GeoWritten /\ pc = "done" /\ Layered
    /\ Len(polygons) = 3
    /\ Len(polygons[1]) = 1
    /\ Len(polygons[2]) = 0
    /\ Len(polygons[3]) = 1
    /\ polygons[1][1][1] # polygons[3][1][1]

----------------------------------------------------------------------------
(* Properties of cell_fov_vote. *)

\* the transcripts: the positions that have both a cell assignment and a fov
Transcripts == 1..ZipLen(vote.fovs, vote.cell_assignments)

\* the transcripts of fov f assigned to cell c, neither being background
VotesFor(c, f) ==
    {t \in Transcripts : /\ vote.cell_assignments[t][1] = c
                         /\ c # BACKGROUND_CELL
                         /\ vote.fovs[t] = f}

\* cell c has a non-background transcript assigned to it
HasVote(c) ==
    \E t \in Transcripts : vote.cell_assignments[t][1] = c /\ c # BACKGROUND_CELL

VoteReturned == entry = "cell_fov_vote" /\ pc = "done"

\* C7: for every cell with at least one non-background transcript the returned
\* fov has the highest vote count of that cell, and every fov of a lower
\* index has strictly fewer votes.
C7_MaxVoteLowestIndex ==
    VoteReturned =>
        \A c \in 0..vote.ncells - 1 :
            HasVote(c) =>
                LET w == vote.cell_fovs[c + 1] IN
                /\ w \in 0..vote.nfovs - 1
                /\ \A f \in 0..vote.nfovs - 1 :
                      /\ Cardinality(VotesFor(c, f)) <= Cardinality(VotesFor(c, w))
                      /\ f < w => Cardinality(VotesFor(c, f)) < Cardinality(VotesFor(c, w))

\* a cell whose two fovs have one vote each gets the first of them
C7_Witness ==
    /\ VoteReturned
    /\ \E c \in 0..vote.ncells - 1 :
          /\ Cardinality(VotesFor(c, 0)) = 1
          /\ Cardinality(VotesFor(c, 1)) = 1
          /\ vote.cell_fovs[c + 1] = 0

\* C8: the result has one entry per cell; the matrix counts exactly the
\* non-background transcripts, so a background transcript adds no vote; an
\* entry is the sentinel exactly for the cells without a non-background
\* transcript, and is a fov index below nfovs for the others.
C8_SentinelIffNoVote ==
    VoteReturned =>
        /\ Len(vote.cell_fovs) = vote.ncells
        /\ \A c \in 0..vote.ncells - 1 :
              /\ \A f \in 0..vote.nfovs - 1 :
                    vote.fov_votes[c + 1][f + 1] = Cardinality(VotesFor(c, f))
              /\ vote.cell_fovs[c + 1] = U32_MAX <=> ~HasVote(c)
              /\ HasVote(c) => vote.cell_fovs[c + 1] < vote.nfovs

\* two cells: the first voted, the second has nothing but the sentinel, and a
\* background transcript was among the input
C8_Witness ==
    /\ VoteReturned
    /\ vote.ncells = 2
    /\ HasVote(0) /\ vote.cell_fovs[1] # U32_MAX
    /\ ~HasVote(1) /\ vote.cell_fovs[2] = U32_MAX
    /\ \E t \in Transcripts : vote.cell_assignments[t][1] = BACKGROUND_CELL

----------------------------------------------------------------------------
(* Properties of the artifact writers. *)

\* C9: an artifact writer whose output path is None creates no file and does
\* not panic, whatever its other arguments are.
C9_NoneIsNoOp ==
    entry \in ArtifactWriters /\ ~output_path.some =>
        files = NoFiles /\ panic = "none"

----------------------------------------------------------------------------
(* Properties of failures. *)

\* the file the running call writes
TargetFile == IF entry \in GeoEntries THEN output_path.name ELSE filename

\* the failures of writing: the format, the creation, the encoder, a write
WriteFailures ==
    {"unknown_format", "create", "csv", "csvgz", "parquet", "geo_create", "geo_write"}

\* C11: a call that failed while writing has panicked with a message that
\* names the file it was writing, and a call that returned has left no file
\* whose stream failed to finish.
C11_FailureNamesFile ==
    /\ panic \in WriteFailures => PanicMessage(panic, TargetFile).arg = TargetFile
    /\ pc = "done" => \A n \in DOMAIN files : files[n].closed

----------------------------------------------------------------------------
(* Properties of the cell-metadata table. *)

\* write_cell_metadata has built its schema and chunk
CellTableBuilt == entry = "write_cell_metadata" /\ schema # <<>>

\* fov f has the most votes of cell c, and more than every fov before it
WinsCell(c, f) ==
    \A g \in 0..vote.nfovs - 1 :
        /\ Cardinality(VotesFor(c, g)) <= Cardinality(VotesFor(c, f))
        /\ g < f => Cardinality(VotesFor(c, g)) < Cardinality(VotesFor(c, f))

\* C12: in the table of write_cell_metadata the fov column has one value per
\* cell; it is null exactly for the cells for which cell_fov_vote returned
\* the sentinel, which are the cells without a non-background transcript;
\* for any other cell it is the name of the winning fov.  The written CSV and
\* Parquet files hold the same values.
C12_FovNullIffNoVote ==
    CellTableBuilt =>
        /\ schema[5] = "fov"
        /\ Len(chunk[5]) = Len(args.cell_centroids)
        /\ \A c \in 0..Len(args.cell_centroids) - 1 :
              LET v == chunk[5][c + 1]
                  w == vote.cell_fovs[c + 1]
              IN /\ v = Null <=> w = U32_MAX
                 /\ v = Null <=> ~HasVote(c)
                 /\ HasVote(c) =>
                       /\ w \in 0..Len(args.fov_names) - 1
                       /\ WinsCell(c, w)
                       /\ v = Str(args.fov_names[w + 1])
                 /\ pc = "done" /\ rfmt = "Csv" =>
                       files[filename].data[16 * (c + 1) + 9] = v
                 /\ pc = "done" /\ rfmt = "Parquet" =>
                       files[filename].data[1].columns[5][c + 1] = v

\* a written CSV table of two cells, one with a named fov and one with null
C12_Witness ==
    /\ CellTableBuilt /\ pc = "done" /\ rfmt = "Csv"
    /\ Len(args.cell_centroids) = 2
    /\ \E c \in 1..2 : chunk[5][c] = Null /\ files[filename].data[16 * c + 9] = Null
    /\ \E c \in 1..2 :
          /\ vote.cell_fovs[c] # U32_MAX
          /\ chunk[5][c] = Str(args.fov_names[vote.cell_fovs[c] + 1])

----------------------------------------------------------------------------
(* Properties of the dispatch of write_table. *)

\* the positions of write_table after the match of lines 33-36
AfterResolve ==
    {"wt_create", "wt_dispatch", "csv_header", "csv_chunk", "wt_finish", "pq_groups",
     "pq_end"}

\* C13: past the match of lines 33-36 the format is Csv, CsvGz or Parquet and
\* never Infer; a call sets it once, before a byte is written and before a
\* file is touched; the arm for Infer never runs; the dispatch enters the CSV
\* encoder exactly for Csv and CsvGz and the Parquet encoder exactly for
\* Parquet.
C13_InferResolvedOnce ==
    /\ [](entry = "write_table" /\ pc \in AfterResolve => rfmt \in Concrete)
    /\ [](panic # "infer_arm")
    /\ [](pc \in {"csv_header", "csv_chunk"} => rfmt \in {"Csv", "CsvGz"})
    /\ [](pc \in {"pq_groups", "pq_end"} => rfmt = "Parquet")
    /\ [][rfmt' # rfmt =>
            \/ pc' = "wt_resolve" /\ rfmt' = "unset"
            \/ /\ pc = "wt_resolve" /\ rfmt = "unset" /\ rfmt' = resolve(fmt, filename)
               /\ sink = <<>> /\ files' = files]_vars
    /\ [][pc = "wt_dispatch" =>
            \/ pc' = "csv_header" /\ rfmt \in {"Csv", "CsvGz"}
            \/ pc' = "pq_groups" /\ rfmt = "Parquet"]_vars

\* a call that asked for Infer went through the dispatch into the Parquet encoder
C13_Witness ==
    /\ entry = "write_table" /\ pc = "pq_groups"
    /\ fmt = "Infer" /\ rfmt = "Parquet"
    /\ ncalls = 2

----------------------------------------------------------------------------
(* Properties of the schema and chunk of the matrix writers. *)

MatrixWriters == {"write_counts", "write_expected_counts", "write_rates"}

\* the matrix the running writer reads
TheMatrix == IF entry = "write_rates" THEN args.params.lambda ELSE args.matrix

\* the running writer has built its table and called write_table with it
TableHandedOver ==
    /\ entry \in TableWriters
    /\ output_path.some
    /\ pc \notin {"w_vote", "vote_tally", "vote_winners", "w_dbg", "w_guard"}
    /\ panic \notin {"chunk", "index"}

\* C14: write_counts, write_expected_counts and write_rates, given as many
\* gene names as the matrix has rows, hand write_table a schema with one field
\* per column of the chunk, the k-th field named by the k-th gene and the k-th
\* column holding row k of the matrix, so every column has as many rows as the
\* matrix has columns.  write_component_params hands over 1 + 2 * ncomponents
\* fields and as many columns: gene, then alpha_i and beta_i for i = 0, 1, ..
C14_SchemaMatchesChunk ==
    /\ TableHandedOver /\ entry \in MatrixWriters
            /\ Len(args.transcript_names) = Len(TheMatrix) =>
          /\ Len(schema) = Len(chunk)
          /\ Len(chunk) = Len(args.transcript_names)
          /\ \A k \in 1..Len(schema) :
                /\ schema[k] = args.transcript_names[k]
                /\ Len(chunk[k]) = Len(TheMatrix[1])
                /\ \A j \in 1..Len(chunk[k]) : chunk[k][j] = Num(TheMatrix[k][j])
    /\ TableHandedOver /\ entry = "write_component_params" =>
          LET p == args.params IN
          /\ Len(schema) = 1 + 2 * p.ncomponents
          /\ Len(chunk) = 1 + 2 * p.ncomponents
          /\ schema[1] = "gene"
          /\ chunk[1] = StrCol(args.transcript_names)
          /\ \A i \in 0..p.ncomponents - 1 :
                /\ schema[2 * i + 2] = "alpha_" \o ToString(i)
                /\ schema[2 * i + 3] = "beta_" \o ToString(i)
                /\ chunk[2 * i + 2] = NumCol(p.r[i + 1])
                /\ \A g \in 1..p.ngenes : chunk[2 * i + 3][g] = Exp(0 - p.phi[i + 1][g])
                /\ Len(chunk[2 * i + 3]) = p.ngenes

\* write_counts wrote a table of two genes over one cell
C14_Witness ==
    /\ TableHandedOver /\ entry = "write_counts" /\ pc = "done"
    /\ Len(args.transcript_names) = 2
    /\ Len(args.matrix) = 2
    /\ Len(args.matrix[1]) = 1
    /\ schema = <<"g1", "g2">>
    /\ Len(chunk) = 2

====
